---- MODULE Spec2Model ----
(***************************************************************************)
(* Model of the point quadtree of package quadtree (QuadtreeOf[T]).        *)
(*                                                                         *)
(* The coordinate type is instantiated as T = int32: "/ 2.0" is Go's       *)
(* truncating integer division, math.Sqrt[T] truncates the float root to   *)
(* an integer, math.MaxOf[T]() is MaxInt32.  The coordinates used are far  *)
(* from the type's limits, so no operation of this model overflows.        *)
(*                                                                         *)
(* A node is named by its position: the root is 0 and child i of node n is *)
(* 4n+i+1.  The tree is the function from the positions of the existing    *)
(* nodes to their Value.  A nil *node is a position outside DOMAIN tree, a *)
(* nil orb.Pointer is NoValue.                                             *)
(***************************************************************************)
EXTENDS Integers, Sequences, FiniteSets, TLC

VARIABLES
    bound,    \* q.bound
    tree,     \* the nodes reachable from q.root
    live,     \* history: the entities added and not removed since
    gone,     \* history: the entities removed and not added again since
    removed,  \* history: some Remove has returned true
    last,     \* the last call: its arguments and what it returned
    readers,  \* the query invocations in progress, one per reading goroutine
    narrow    \* the index instantiated with an 8-bit coordinate type

vars == <<bound, tree, live, gone, removed, last, readers, narrow>>

(***************************************************************************)
(* Bounds of the model.                                                    *)
(***************************************************************************)
\* Add is not called once the tree has this many nodes.
MaxNodes == 3
\* Largest k passed to KNearest / KNearestMatching.
MaxK == 2

(***************************************************************************)
(* Inputs.                                                                 *)
(***************************************************************************)
\* The entities the caller owns (orb.Pointer values), by identity.
Ents == 1..5

\* nil orb.Pointer
NoValue == 0

\* Pointer.Point() of each entity.  Entities 1 and 2 share a point in the
\* lower left quarter of the universe, 3 lies on both of its centre lines, 4
\* on its edge in the upper right quarter, 5 outside of it.
Pt(e) ==
    CASE e = 1 -> <<2, 2>>
      [] e = 2 -> <<2, 2>>
      [] e = 3 -> <<4, 4>>
      [] e = 4 -> <<8, 5>>
      [] OTHER -> <<9, 4>>

\* The rectangle handed to New.
Universe == [Min |-> <<0, 0>>, Max |-> <<8, 8>>]

\* Query points of Find / Matching: the points of the entities and one more.
QueryPoints == {<<2, 2>>, <<4, 4>>, <<8, 5>>, <<5, 1>>}

\* Query points of KNearest / KNearestMatching.
NearestPoints == {<<2, 2>>, <<5, 4>>, <<8, 8>>}

\* Query rectangles of InBound / InBoundMatching: the universe, a quarter of
\* it with entity 3 on its corner, a rectangle across the centre lines, and
\* one with Min > Max.
QueryRects ==
    { Universe,
      [Min |-> <<0, 0>>, Max |-> <<4, 4>>],
      [Min |-> <<3, 3>>, Max |-> <<8, 8>>],
      [Min |-> <<5, 5>>, Max |-> <<4, 4>>] }

\* A FilterFunc is the set of entities it accepts; nil is the nil func.
NilFilter == [nil |-> TRUE, acc |-> {}]
FilterOf(S) == [nil |-> FALSE, acc |-> S]

\* The filters passed to Matching and InBoundMatching.
QueryFilters == {FilterOf({2}), FilterOf({3, 4})}

\* The filter passed to KNearestMatching.
NearestFilters == {FilterOf({1, 2, 4})}

\* The (target, matcher) pairs of Remove: a target at each point of the
\* universe that entities have, with the nil matcher, and two matchers that
\* tell entities by identity.
RemoveArgs ==
    {<<1, NilFilter>>, <<3, NilFilter>>, <<4, NilFilter>>,
     <<1, FilterOf({2})>>, <<4, FilterOf({1, 3})>>}

\* The variadic maxDistance argument: absent or one value.
MaxDistances == {<<>>, <<3>>}

(***************************************************************************)
(* Arithmetic of the coordinate type.                                      *)
(***************************************************************************)
\* math.MaxOf[int32]()
MaxOf == 2147483647

\* x / 2.0 on an integer type: division truncated toward zero.
Half(x) == IF x >= 0 THEN x \div 2 ELSE -((-x) \div 2)

\* math.Sqrt: T(math.Sqrt(float64(num))), the root truncated to an integer.
Sqrt(num) == CHOOSE s \in 0..num : s * s <= num /\ (s + 1) * (s + 1) > num

\* planar.DistanceSquared
DistanceSquared(p1, p2) ==
    LET d0 == p1[1] - p2[1]
        d1 == p1[2] - p2[2]
    IN  d0 * d0 + d1 * d1

\* Contains with the boundary left out: <= and >= in place of < .
Contains_Open(b, point) ==
    IF point[2] <= b.Min[2] \/ b.Max[2] <= point[2] THEN FALSE
    ELSE IF point[1] <= b.Min[1] \/ b.Max[1] <= point[1] THEN FALSE
    ELSE TRUE

\* BoundOf.Contains
Contains(b, point) ==
    IF point[2] < b.Min[2] \/ b.Max[2] < point[2] THEN FALSE
    ELSE IF point[1] < b.Min[1] \/ b.Max[1] < point[1] THEN FALSE
    ELSE TRUE

(***************************************************************************)
(* Nodes.                                                                  *)
(***************************************************************************)
\* q.root
Root == 0

\* n.Children[i]
Child(n, i) == 4 * n + i + 1

\* n.Children[i] != nil
HasChild(t, n, i) == Child(n, i) \in DOMAIN t

\* Node m is node a or lies below it.
RECURSIVE IsUnder(_, _)
IsUnder(a, m) == m = a \/ (m > a /\ IsUnder(a, (m - 1) \div 4))

\* n.Children[i] = nil: the child and everything below it is unlinked.
DropChild(t, n, i) ==
    [m \in {x \in DOMAIN t : ~IsUnder(Child(n, i), x)} |-> t[m]]

\* The entities stored in the nodes of the tree.
Held(t) == {t[n] : n \in DOMAIN t} \ {NoValue}

(***************************************************************************)
(* Add.                                                                    *)
(***************************************************************************)
\* addIndex with the axes exchanged: x picks the half, y the side.
addIndex_Swapped(cx, cy, point) ==
    (IF point[1] >= cx THEN 2 ELSE 0) + (IF point[2] <= cy THEN 1 ELSE 0)

\* addIndex with the ties the other way: < and > in place of <= and >=.
addIndex_Strict(cx, cy, point) ==
    (IF point[2] < cy THEN 2 ELSE 0) + (IF point[1] > cx THEN 1 ELSE 0)

\* The quadrant add picks for a point in the cell with centre (cx, cy).
addIndex(cx, cy, point) ==
    (IF point[2] <= cy THEN 2 ELSE 0) + (IF point[1] >= cx THEN 1 ELSE 0)

\* The rectangle of child i of the cell (left, right, bottom, top).
ChildCell(i, left, right, bottom, top) ==
    LET cx == Half(left + right)
        cy == Half(bottom + top)
    IN  [left   |-> IF i \in {1, 3} THEN cx ELSE left,
         right  |-> IF i \in {1, 3} THEN right ELSE cx,
         bottom |-> IF i \in {2, 3} THEN bottom ELSE cy,
         top    |-> IF i \in {2, 3} THEN cy ELSE top]

\* add without the test for a taken slot: the child is set at once.
add_Replace(t, n, p, left, right, bottom, top) ==
    LET i == addIndex(Half(left + right), Half(bottom + top), Pt(p))
    IN  (Child(n, i) :> p) @@ [m \in DOMAIN t \ {Child(n, i)} |-> t[m]]

\* add that puts p into the node above the free slot and that node's value
\* into the new child.
RECURSIVE add_PushDown(_, _, _, _, _, _, _)
add_PushDown(t, n, p, left, right, bottom, top) ==
    LET i == addIndex(Half(left + right), Half(bottom + top), Pt(p))
        c == ChildCell(i, left, right, bottom, top)
    IN  IF ~HasChild(t, n, i)
        THEN (Child(n, i) :> t[n]) @@ [t EXCEPT ![n] = p]
        ELSE add_PushDown(t, Child(n, i), p, c.left, c.right, c.bottom, c.top)

\* QuadtreeOf.add: the recursive search for a free child slot.
RECURSIVE add(_, _, _, _, _, _, _)
add(t, n, p, left, right, bottom, top) ==
    LET i == addIndex(Half(left + right), Half(bottom + top), Pt(p))
        c == ChildCell(i, left, right, bottom, top)
    IN  IF ~HasChild(t, n, i)
        THEN (Child(n, i) :> p) @@ t
        ELSE add(t, Child(n, i), p, c.left, c.right, c.bottom, c.top)

(***************************************************************************)
(* removeNode.                                                             *)
(***************************************************************************)
\* FirstChild with the slots tried from 3 down to 0.
FirstChild_Last(t, n) ==
    IF HasChild(t, n, 3) THEN 3
    ELSE IF HasChild(t, n, 2) THEN 2
    ELSE IF HasChild(t, n, 1) THEN 1
    ELSE IF HasChild(t, n, 0) THEN 0
    ELSE -1

\* The first i in 0..3 with n.Children[i] != nil, or -1.
FirstChild(t, n) ==
    IF HasChild(t, n, 0) THEN 0
    ELSE IF HasChild(t, n, 1) THEN 1
    ELSE IF HasChild(t, n, 2) THEN 2
    ELSE IF HasChild(t, n, 3) THEN 3
    ELSE -1

\* ClearValue that leaves the value in the node.
ClearValue_Keep(t, n) == t

\* n.Value = nil
ClearValue(t, n) == [t EXCEPT ![n] = NoValue]

\* n.Value = n.Children[i].Value
PullUp(t, n, i) == [t EXCEPT ![n] = t[Child(n, i)]]

\* removeNode: the recursive fixing up of the tree when a node's value is
\* removed.  The "continue" of the loop is the call on the same node.
RECURSIVE removeNode(_, _)
removeNode(t, n) ==
    LET i == FirstChild(t, n)
    IN  IF i = -1 THEN ClearValue(t, n)
        ELSE IF t[Child(n, i)] = NoValue THEN removeNode(DropChild(t, n, i), n)
        ELSE removeNode(PullUp(t, n, i), Child(n, i))

(***************************************************************************)
(* The bounded max-heap of the k-nearest search, keyed by squared          *)
(* distance.  It is kept as a sequence ordered worst-first, so that        *)
(* element 1 is the top of the heap (v.maxHeap[0]).                        *)
(***************************************************************************)
\* maxHeap.Push
heapPush(h, e, d) ==
    LET pos == Cardinality({x \in 1..Len(h) : h[x].distance > d})
    IN  SubSeq(h, 1, pos) \o <<[point |-> e, distance |-> d]>>
            \o SubSeq(h, pos + 1, Len(h))

\* maxHeap.Pop: the heap without its greatest item.
heapPop(h) == Tail(h)

(***************************************************************************)
(* The visitors.                                                           *)
(***************************************************************************)
\* nil *node
NoNode == -1

\* The square the nearest searches write into *closestBound.
SquareAround(point, d) ==
    [Min |-> <<point[1] - d, point[2] - d>>,
     Max |-> <<point[1] + d, point[2] + d>>]

\* v.filter != nil && !v.filter(n.Value)
Rejects(f, e) == ~f.nil /\ e \notin f.acc

\* &findVisitor{...} as built by Remove and Matching
newFindVisitor(b, p, f) ==
    [kind |-> "find", point |-> p, filter |-> f, closest |-> NoNode,
     closestBound |-> b, minDistSquared |-> MaxOf, panic |-> FALSE]

\* findVisitor.Visit
findVisit(t, v, n) ==
    IF Rejects(v.filter, t[n]) THEN v
    ELSE LET d == DistanceSquared(Pt(t[n]), v.point)
         IN  IF d < v.minDistSquared
             THEN [v EXCEPT !.minDistSquared = d,
                            !.closest = n,
                            !.closestBound = SquareAround(v.point, Sqrt(d))]
             ELSE v

\* initMaxDistSquared with maxDistance taken as it is, not squared.
initMaxDistSquared_Plain(maxDistance) ==
    IF Len(maxDistance) > 0 THEN maxDistance[1] ELSE MaxOf

\* The threshold KNearestMatching starts from.
initMaxDistSquared(maxDistance) ==
    IF Len(maxDistance) > 0 THEN maxDistance[1] * maxDistance[1] ELSE MaxOf

\* &nearestVisitor{...} as built by KNearestMatching
newNearestVisitor(b, p, k, f, maxDistance) ==
    [kind |-> "nearest", point |-> p, filter |-> f, k |-> k, maxHeap |-> <<>>,
     closestBound |-> b, maxDistSquared |-> initMaxDistSquared(maxDistance),
     panic |-> FALSE]

\* len(v.maxHeap) > v.k
HeapFull(h, k) == Len(h) > k

\* nearestVisitor.Visit.  Reading v.maxHeap[0] from an empty heap is an
\* index-out-of-range panic.
nearestVisit(t, v, n) ==
    IF Rejects(v.filter, t[n]) THEN v
    ELSE LET d == DistanceSquared(Pt(t[n]), v.point)
         IN  IF d < v.maxDistSquared
             THEN LET h1 == heapPush(v.maxHeap, t[n], d)
                      h2 == heapPop(h1)
                  IN  IF HeapFull(h1, v.k)
                      THEN IF Len(h2) = 0
                           THEN [v EXCEPT !.maxHeap = h2, !.panic = TRUE]
                           ELSE [v EXCEPT
                                   !.maxHeap = h2,
                                   !.maxDistSquared = h2[1].distance,
                                   !.closestBound =
                                       SquareAround(v.point, Sqrt(h2[1].distance))]
                      ELSE [v EXCEPT !.maxHeap = h1]
             ELSE v

\* &inBoundVisitor{...} as built by InBoundMatching
newInBoundVisitor(b, f) ==
    [kind |-> "inBound", bound |-> b, pointers |-> <<>>, filter |-> f,
     panic |-> FALSE]

\* OutsideBound with >= and <= in place of > and <.
OutsideBound_Exclusive(b, p) ==
    b.Min[1] >= p[1] \/ b.Max[1] <= p[1] \/ b.Min[2] >= p[2] \/ b.Max[2] <= p[2]

\* The test of inBoundVisitor.Visit that rejects a point outside v.bound.
OutsideBound(b, p) ==
    b.Min[1] > p[1] \/ b.Max[1] < p[1] \/ b.Min[2] > p[2] \/ b.Max[2] < p[2]

\* inBoundVisitor.Visit
inBoundVisit(t, v, n) ==
    IF Rejects(v.filter, t[n]) THEN v
    ELSE IF OutsideBound(v.bound, Pt(t[n])) THEN v
    ELSE [v EXCEPT !.pointers = Append(v.pointers, t[n])]

\* visitor.Bound()
visitorBound(v) == IF v.kind = "inBound" THEN v.bound ELSE v.closestBound

\* visitor.Point(); inBoundVisitor returns the zero point.
visitorPoint(v) == IF v.kind = "inBound" THEN <<0, 0>> ELSE v.point

\* visitor.Visit(n)
visitorVisit(t, v, n) ==
    CASE v.kind = "find" -> findVisit(t, v, n)
      [] v.kind = "nearest" -> nearestVisit(t, v, n)
      [] OTHER -> inBoundVisit(t, v, n)

(***************************************************************************)
(* The traversal.                                                          *)
(***************************************************************************)
\* childIndex that takes no notice of the point.
childIndex_Zero(cx, cy, point) == 0

\* childIndex
childIndex(cx, cy, point) ==
    (IF point[2] <= cy THEN 2 ELSE 0) + (IF point[1] >= cx THEN 1 ELSE 0)

\* The test of visit.Visit that skips a cell outside the relevant bound.
Pruned(b, left, right, bottom, top) ==
    left > b.Max[1] \/ right < b.Min[1] \/ bottom > b.Max[2] \/ top < b.Min[2]

\* LoopEnd with the loop one child short: j < i+3.
LoopEnd_Short(i) == i + 3

\* The end of the loop over the children: j < i+4.
LoopEnd(i) == i + 4

\* n.Children[0..3] are all nil
NoChildren(t, n) == \A i \in 0..3 : ~HasChild(t, n, i)

RECURSIVE Visit(_, _, _, _, _, _, _)
RECURSIVE VisitChildren(_, _, _, _, _, _, _, _, _)

\* visit.Visit.  A panic of the visitor ends the walk; reading n.Value of a
\* nil node is a nil-pointer panic.
Visit(t, v, n, left, right, bottom, top) ==
    IF Pruned(visitorBound(v), left, right, bottom, top) THEN v
    ELSE IF n \notin DOMAIN t THEN [v EXCEPT !.panic = TRUE]
    ELSE LET v1 == IF t[n] # NoValue THEN visitorVisit(t, v, n) ELSE v
         IN  IF v1.panic \/ NoChildren(t, n) THEN v1
             ELSE LET i == childIndex(Half(left + right), Half(bottom + top),
                                      visitorPoint(v1))
                  IN  VisitChildren(t, v1, n, i, i, left, right, bottom, top)

\* The loop of visit.Visit over the children j = i .. i+3.
VisitChildren(t, v, n, i, j, left, right, bottom, top) ==
    IF j >= LoopEnd(i) \/ v.panic THEN v
    ELSE LET k == j % 4
             c == ChildCell(k, left, right, bottom, top)
             v1 == IF ~HasChild(t, n, k) THEN v
                   ELSE Visit(t, v, Child(n, k),
                              c.left, c.right, c.bottom, c.top)
         IN  VisitChildren(t, v1, n, i, j + 1, left, right, bottom, top)

\* newVisit(v).Visit(q.root, q.bound.Min[0], q.bound.Max[0], q.bound.Min[1],
\* q.bound.Max[1])
Walk(t, b, v) == Visit(t, v, Root, b.Min[1], b.Max[1], b.Min[2], b.Max[2])

(***************************************************************************)
(* The calls.  Each records its arguments and its outcome in last:         *)
(* status is "ok" for a normal return and "panic" for a run-time panic,    *)
(* err the returned error, ok the returned bool, ent the returned entity   *)
(* and list the returned slice.                                            *)
(***************************************************************************)
Call(op) ==
    [op |-> op, status |-> "ok", e |-> NoValue, p |-> <<0, 0>>, k |-> 0,
     f |-> NilFilter, md |-> <<>>, r |-> Universe,
     err |-> "nil", ok |-> FALSE, ent |-> NoValue, list |-> <<>>]

\* The calls that return entities of the index without changing it.
Queries ==
    {"Find", "Matching", "KNearest", "KNearestMatching", "InBound",
     "InBoundMatching"}

\* The goroutines that read the index.
Readers == 1..2

\* A goroutine that is not inside a query: pc is "idle", "run" (inside the
\* walk) or "done" (returned); call is the call and, once done, its outcome;
\* v the visitor, stack the calls of visit.Visit still to be made, innermost
\* first, seen the nodes whose Value the walk has read, in order, and mixed
\* tells that a step of the walk was made while another walk was under way.
Idle ==
    [pc |-> "idle", call |-> Call("New"), v |-> << >>, stack |-> << >>,
     seen |-> << >>, mixed |-> FALSE]

\* No index with an 8-bit coordinate type is in use.
NoNarrow == << >>

\* The calls are explored as any sequence of Add and Remove calls followed by
\* one query.  A query writes neither q nor a node, so the calls that follow a
\* query start from an index that is reached without the query as well.
Building == last.op \notin Queries

Init ==
    /\ bound = Universe
    /\ tree = << >>
    /\ live = {}
    /\ gone = {}
    /\ removed = FALSE
    /\ last = Call("New")
    /\ readers = [r \in Readers |-> Idle]
    /\ narrow = NoNarrow

\* Inserted without the test for an existing root: p becomes the root.
Inserted_Overwrite(t, b, p) == (Root :> p)

\* The tree after a successful Add of p.
Inserted(t, b, p) ==
    IF Root \notin DOMAIN t THEN (Root :> p)
    ELSE add(t, Root, p, b.Min[1], b.Max[1], b.Min[2], b.Max[2])

\* QuadtreeOf.Add.  The caller adds an entity it has not added before or
\* has removed since.
Add(p) ==
    /\ Building
    /\ Cardinality(DOMAIN tree) < MaxNodes
    /\ p \notin live
    /\ IF p = NoValue
       THEN /\ last' = [Call("Add") EXCEPT !.e = p]
            /\ UNCHANGED <<tree, live, gone>>
       ELSE IF ~Contains(bound, Pt(p))
       THEN /\ last' = [Call("Add") EXCEPT !.e = p,
                                            !.err = "ErrPointOutsideOfBounds"]
            /\ UNCHANGED <<tree, live, gone>>
       ELSE /\ tree' = Inserted(tree, bound, p)
            /\ live' = live \cup {p}
            /\ gone' = gone \ {p}
            /\ last' = [Call("Add") EXCEPT !.e = p]
    /\ UNCHANGED <<bound, removed, readers, narrow>>

\* DefaultEq that tells entities by identity.
DefaultEq_Identity(p) == FilterOf({p})

\* The matcher Remove uses when eq is nil: equality of the points.
DefaultEq(p) == FilterOf({e \in Ents : Pt(e) = Pt(p)})

\* QuadtreeOf.Remove
Remove(p, eq) ==
    LET f == IF eq.nil THEN DefaultEq(p) ELSE eq
        v == Walk(tree, bound, newFindVisitor(bound, Pt(p), f))
        c == Call("Remove")
    IN  /\ Building
        /\ IF v.panic
           THEN /\ last' = [c EXCEPT !.e = p, !.f = eq, !.status = "panic"]
                /\ UNCHANGED <<tree, live, gone, removed>>
           ELSE IF v.closest = NoNode
           THEN /\ last' = [c EXCEPT !.e = p, !.f = eq, !.ok = FALSE]
                /\ UNCHANGED <<tree, live, gone, removed>>
           ELSE /\ tree' = removeNode(tree, v.closest)
                /\ live' = live \ {tree[v.closest]}
                /\ gone' = gone \cup {tree[v.closest]}
                /\ removed' = TRUE
                /\ last' = [c EXCEPT !.e = p, !.f = eq, !.ok = TRUE,
                                     !.ent = tree[v.closest]]
        /\ UNCHANGED <<bound, readers, narrow>>

\* What QuadtreeOf.Matching returns: [panic, ent].
MatchingResult(t, b, p, f) ==
    IF Root \notin DOMAIN t THEN [panic |-> FALSE, ent |-> NoValue]
    ELSE LET v == Walk(t, b, newFindVisitor(b, p, f))
         IN  [panic |-> v.panic,
              ent |-> IF v.closest = NoNode THEN NoValue ELSE t[v.closest]]

\* QuadtreeOf.Matching
Matching(p, f) ==
    LET res == MatchingResult(tree, bound, p, f)
    IN  /\ Building
        /\ last' = [Call("Matching") EXCEPT
                      !.p = p, !.f = f, !.ent = res.ent,
                      !.status = IF res.panic THEN "panic" ELSE "ok"]
        /\ UNCHANGED <<bound, tree, live, gone, removed, readers, narrow>>

\* QuadtreeOf.Find
Find(p) ==
    LET res == MatchingResult(tree, bound, p, NilFilter)
    IN  /\ Building
        /\ last' = [Call("Find") EXCEPT
                      !.p = p, !.ent = res.ent,
                      !.status = IF res.panic THEN "panic" ELSE "ok"]
        /\ UNCHANGED <<bound, tree, live, gone, removed, readers, narrow>>

\* Repack with the loop running upward: buf[i] = Pop().point for i = 0 .. len-1.
Repack_Forward(h) == [i \in 1..Len(h) |-> h[i].point]

\* The "repack result" loop of KNearestMatching: buf[i] = Pop().point for
\* i = len-1 .. 0.
Repack(h) == [i \in 1..Len(h) |-> h[Len(h) - i + 1].point]

\* What QuadtreeOf.KNearestMatching returns: [panic, list].  The contents
\* of the returned slice do not depend on the buffer passed in.
KNearestResult(t, b, p, k, f, maxDistance) ==
    IF Root \notin DOMAIN t THEN [panic |-> FALSE, list |-> <<>>]
    ELSE LET v == Walk(t, b, newNearestVisitor(b, p, k, f, maxDistance))
         IN  [panic |-> v.panic,
              list |-> IF v.panic THEN <<>> ELSE Repack(v.maxHeap)]

\* QuadtreeOf.KNearestMatching
KNearestMatching(p, k, f, maxDistance) ==
    LET res == KNearestResult(tree, bound, p, k, f, maxDistance)
    IN  /\ Building
        /\ last' = [Call("KNearestMatching") EXCEPT
                      !.p = p, !.k = k, !.f = f, !.md = maxDistance,
                      !.list = res.list,
                      !.status = IF res.panic THEN "panic" ELSE "ok"]
        /\ UNCHANGED <<bound, tree, live, gone, removed, readers, narrow>>

\* QuadtreeOf.KNearest
KNearest(p, k, maxDistance) ==
    LET res == KNearestResult(tree, bound, p, k, NilFilter, maxDistance)
    IN  /\ Building
        /\ last' = [Call("KNearest") EXCEPT
                      !.p = p, !.k = k, !.md = maxDistance,
                      !.list = res.list,
                      !.status = IF res.panic THEN "panic" ELSE "ok"]
        /\ UNCHANGED <<bound, tree, live, gone, removed, readers, narrow>>

\* What QuadtreeOf.InBoundMatching returns: [panic, list].  The contents of
\* the returned slice do not depend on the buffer passed in.
InBoundResult(t, b, r, f) ==
    IF Root \notin DOMAIN t THEN [panic |-> FALSE, list |-> <<>>]
    ELSE LET v == Walk(t, b, newInBoundVisitor(r, f))
         IN  [panic |-> v.panic, list |-> v.pointers]

\* QuadtreeOf.InBoundMatching
InBoundMatching(r, f) ==
    LET res == InBoundResult(tree, bound, r, f)
    IN  /\ Building
        /\ last' = [Call("InBoundMatching") EXCEPT
                      !.r = r, !.f = f, !.list = res.list,
                      !.status = IF res.panic THEN "panic" ELSE "ok"]
        /\ UNCHANGED <<bound, tree, live, gone, removed, readers, narrow>>

\* QuadtreeOf.InBound
InBound(r) ==
    LET res == InBoundResult(tree, bound, r, NilFilter)
    IN  /\ Building
        /\ last' = [Call("InBound") EXCEPT
                      !.r = r, !.list = res.list,
                      !.status = IF res.panic THEN "panic" ELSE "ok"]
        /\ UNCHANGED <<bound, tree, live, gone, removed, readers, narrow>>

Next ==
    \/ \E p \in Ents \cup {NoValue} : Add(p)
    \/ \E a \in RemoveArgs : Remove(a[1], a[2])
    \/ \E p \in QueryPoints : Find(p)
    \/ \E p \in QueryPoints, f \in QueryFilters : Matching(p, f)
    \/ \E p \in NearestPoints, k \in 0..MaxK, md \in MaxDistances :
           KNearest(p, k, md)
    \/ \E p \in NearestPoints, k \in 0..MaxK, f \in NearestFilters,
          md \in MaxDistances :
           KNearestMatching(p, k, f, md)
    \/ \E r \in QueryRects : InBound(r)
    \/ \E r \in QueryRects, f \in QueryFilters : InBoundMatching(r, f)

Spec == Init /\ [][Next]_vars

(***************************************************************************)
(* Concurrent readers.  Each goroutine runs one query at a time; a step of *)
(* a query is one call of visit.Visit, which reads one node.  The calls of *)
(* visit.Visit still to be made are kept innermost first, so a query alone *)
(* makes them in the order of the recursion.  Add and Remove run only      *)
(* while no goroutine is inside or has results of a query.                 *)
(*                                                                         *)
(* A *orb.BoundOf is an address: QBound is &q.bound, the address r is the  *)
(* &b of the local copy "b := q.bound" of goroutine r's invocation, which  *)
(* is kept in its visitor's closestBound.                                  *)
(***************************************************************************)
\* The entities Add is called with before the goroutines read.
ReaderEnts == {1, 3, 4}

\* The (target, matcher) pairs of Remove before the goroutines read.
ReaderRemoveArgs == {<<1, NilFilter>>, <<4, FilterOf({1, 3})>>}

\* The queries the goroutines make.
ReaderCalls ==
    { [Call("Find") EXCEPT !.p = <<8, 5>>],
      [Call("Matching") EXCEPT !.p = <<2, 2>>, !.f = FilterOf({3, 4})],
      [Call("KNearest") EXCEPT !.p = <<5, 4>>, !.k = MaxK],
      [Call("KNearestMatching") EXCEPT
          !.p = <<2, 2>>, !.k = 1, !.f = FilterOf({1, 2, 4}), !.md = <<3>>],
      [Call("InBound") EXCEPT !.r = Universe],
      [Call("InBoundMatching") EXCEPT
          !.r = [Min |-> <<3, 3>>, Max |-> <<8, 8>>], !.f = FilterOf({3, 4})] }

\* The queries goroutine r makes: the first any of them, the second those
\* without a filter.
CallsOf(r) == IF r = 1 THEN ReaderCalls ELSE {c \in ReaderCalls : c.f.nil}

\* &q.bound
QBound == 0

\* BoundAddr with closestBound: &q.bound, no local copy.
BoundAddr_Shared(r) == QBound

\* closestBound: &b, b being the local of goroutine r's invocation.
BoundAddr(r) == r

\* *a for an address a
Deref(rs, a) == IF a = QBound THEN bound ELSE rs[a].v.closestBound

\* The visitor of goroutine r as its methods see it.
ReaderVisitor(rs, r) ==
    IF rs[r].v.kind = "inBound" THEN rs[r].v
    ELSE [rs[r].v EXCEPT !.closestBound = Deref(rs, BoundAddr(r))]

\* One pending call of visit.Visit.
Frame(n, left, right, bottom, top) ==
    [n |-> n, left |-> left, right |-> right, bottom |-> bottom, top |-> top]

\* The calls the loop of visit.Visit makes for j = from .. LoopEnd(i)-1.
RECURSIVE ChildFrames(_, _, _, _, _)
ChildFrames(t, fr, i, j, acc) ==
    IF j >= LoopEnd(i) THEN acc
    ELSE LET k == j % 4
             c == ChildCell(k, fr.left, fr.right, fr.bottom, fr.top)
         IN  ChildFrames(t, fr, i, j + 1,
                 IF ~HasChild(t, fr.n, k) THEN acc
                 ELSE Append(acc, Frame(Child(fr.n, k),
                                        c.left, c.right, c.bottom, c.top)))

\* The visitor a query builds: its closestBound starts as the copy of
\* q.bound.
CallVisitor(c) ==
    CASE c.op \in {"Find", "Matching"} -> newFindVisitor(bound, c.p, c.f)
      [] c.op \in {"KNearest", "KNearestMatching"} ->
             newNearestVisitor(bound, c.p, c.k, c.f, c.md)
      [] OTHER -> newInBoundVisitor(c.r, c.f)

\* What the query returns once the walk is over.
CallOutcome(t, c, v) ==
    CASE v.panic -> [c EXCEPT !.status = "panic"]
      [] v.kind = "find" ->
             [c EXCEPT !.ent = IF v.closest = NoNode THEN NoValue
                               ELSE t[v.closest]]
      [] v.kind = "nearest" -> [c EXCEPT !.list = Repack(v.maxHeap)]
      [] OTHER -> [c EXCEPT !.list = v.pointers]

\* Goroutine r is between two calls of visit.Visit of its walk.
MidWalk(r) ==
    readers[r].pc = "run" /\ readers[r].seen # << >> /\ readers[r].stack # << >>

AllIdle == \A r \in Readers : readers[r].pc = "idle"

\* Goroutine r calls a query: the test for q.root == nil, the visitor and the
\* call of visit.Visit on the root.
Start(r, c) ==
    /\ readers[r].pc = "idle"
    /\ readers' =
         [readers EXCEPT ![r] =
            IF Root \notin DOMAIN tree
            THEN [Idle EXCEPT !.pc = "done", !.call = c]
            ELSE [pc |-> "run", call |-> c, v |-> CallVisitor(c),
                  stack |-> <<Frame(Root, bound.Min[1], bound.Max[1],
                                    bound.Min[2], bound.Max[2])>>,
                  seen |-> << >>, mixed |-> FALSE]]
    /\ UNCHANGED <<bound, tree, live, gone, removed, last, narrow>>

\* Goroutine r makes its next call of visit.Visit.  The visitor writes its
\* relevant bound through the address it holds.
Step(r) ==
    /\ readers[r].pc = "run"
    /\ readers[r].stack # << >>
    /\ LET fr == Head(readers[r].stack)
           rest == Tail(readers[r].stack)
           v0 == ReaderVisitor(readers, r)
           pruned == Pruned(visitorBound(v0), fr.left, fr.right, fr.bottom, fr.top)
           v1 == IF pruned THEN v0
                 ELSE IF fr.n \notin DOMAIN tree THEN [v0 EXCEPT !.panic = TRUE]
                 ELSE IF tree[fr.n] # NoValue THEN visitorVisit(tree, v0, fr.n)
                 ELSE v0
           i == childIndex(Half(fr.left + fr.right), Half(fr.bottom + fr.top),
                           visitorPoint(v1))
           stack1 == IF v1.panic THEN << >>
                     ELSE IF pruned \/ NoChildren(tree, fr.n) THEN rest
                     ELSE ChildFrames(tree, fr, i, i, << >>) \o rest
           shared == v1.kind # "inBound" /\ BoundAddr(r) = QBound
       IN  /\ readers' =
                [readers EXCEPT
                   ![r].v = v1,
                   ![r].stack = stack1,
                   ![r].seen = IF pruned \/ fr.n \notin DOMAIN tree THEN @
                               ELSE Append(@, fr.n),
                   ![r].mixed = @ \/ \E o \in Readers \ {r} : MidWalk(o)]
           /\ bound' = IF shared THEN v1.closestBound ELSE bound
    /\ UNCHANGED <<tree, live, gone, removed, last, narrow>>

\* The walk of goroutine r is over: the query returns.
Finish(r) ==
    /\ readers[r].pc = "run"
    /\ readers[r].stack = << >>
    /\ readers' =
         [readers EXCEPT
            ![r].pc = "done",
            ![r].call = CallOutcome(tree, @, ReaderVisitor(readers, r))]
    /\ UNCHANGED <<bound, tree, live, gone, removed, last, narrow>>

\* Goroutine r has used the result.
Return(r) ==
    /\ readers[r].pc = "done"
    /\ readers' = [readers EXCEPT ![r] = Idle]
    /\ UNCHANGED <<bound, tree, live, gone, removed, last, narrow>>

NextReaders ==
    \/ \E p \in ReaderEnts : AllIdle /\ Add(p)
    \/ \E a \in ReaderRemoveArgs : AllIdle /\ Remove(a[1], a[2])
    \/ \E r \in Readers : \E c \in CallsOf(r) : Start(r, c)
    \/ \E r \in Readers : Step(r)
    \/ \E r \in Readers : Finish(r)
    \/ \E r \in Readers : Return(r)

SpecReaders == Init /\ [][NextReaders]_vars

(***************************************************************************)
(* The index with an 8-bit coordinate type, T = int8 or T = uint8, both in *)
(* math.Number.  Every operation on T is taken modulo 2^Width.  narrow     *)
(* holds the type, the rectangle handed to New, a point, the cell that the *)
(* descent of add and of visit.Visit for that point has reached, and the   *)
(* findVisitor of a search for that point.  The descent goes one level     *)
(* further whenever the child it picks exists.                             *)
(***************************************************************************)
\* The descent is followed for this many levels.
MaxDepth == 3

\* Bits of int8 and uint8.
Width == 8

NarrowTypes == {"int8", "uint8"}

\* math.MinOf[T]()
MinOfT(T) == IF T = "uint8" THEN 0 ELSE -(2 ^ (Width - 1))

\* math.MaxOf[T]()
MaxOfT(T) == IF T = "uint8" THEN 2 ^ Width - 1 ELSE 2 ^ (Width - 1) - 1

\* The value of type T that the integer x is stored as.
WrapT(T, x) == MinOfT(T) + ((x - MinOfT(T)) % (2 ^ Width))

\* (lo + hi) / 2.0
CentreT(T, lo, hi) == Half(WrapT(T, lo + hi))

\* planar.DistanceSquared on T
DistanceSquaredT(T, p1, p2) ==
    LET d0 == WrapT(T, p1[1] - p2[1])
        d1 == WrapT(T, p1[2] - p2[2])
    IN  WrapT(T, WrapT(T, d0 * d0) + WrapT(T, d1 * d1))

\* math.Sqrt on T: the values T(math.Sqrt(float64(num))) can be.  The root
\* of a negative number is NaN, whose conversion to an integer type is
\* implementation-dependent.
SqrtOutcomes(T, num) ==
    IF num >= 0 THEN {Sqrt(num)} ELSE {MinOfT(T), 0, MaxOfT(T)}

\* The rectangles handed to New.
NarrowUniverses(T) ==
    IF T = "uint8"
    THEN { [Min |-> <<0, 0>>, Max |-> <<8, 8>>],
           [Min |-> <<0, 0>>, Max |-> <<200, 200>>] }
    ELSE { [Min |-> <<0, 0>>, Max |-> <<8, 8>>],
           [Min |-> <<0, 0>>, Max |-> <<100, 100>>],
           [Min |-> <<-100, -100>>, Max |-> <<100, 100>>] }

\* The points of the entities and of the searches.
NarrowPoints == {<<2, 2>>, <<2, 6>>, <<7, 7>>, <<90, 90>>, <<60, 20>>}

\* The state of a fresh index with coordinate type T and rectangle u, and of
\* the findVisitor of a search for point p.
NarrowStart(T, u, p) ==
    [T |-> T, universe |-> u, point |-> p,
     cell |-> [left |-> u.Min[1], right |-> u.Max[1],
               bottom |-> u.Min[2], top |-> u.Max[2]],
     depth |-> 0, from |-> << >>, cx |-> 0, cy |-> 0,
     closest |-> << >>, closestBound |-> u, minDistSquared |-> MaxOfT(T)]

InitNarrow ==
    /\ bound = Universe
    /\ tree = << >>
    /\ live = {}
    /\ gone = {}
    /\ removed = FALSE
    /\ last = Call("New")
    /\ readers = [r \in Readers |-> Idle]
    /\ \E T \in NarrowTypes : \E u \in NarrowUniverses(T) :
           \E p \in {x \in NarrowPoints : Contains(u, x)} :
               narrow = NarrowStart(T, u, p)

\* One level of the descent: the centre of the cell and the quadrant of the
\* point, as add computes them; from is the cell the centre was computed of.
NarrowDescend ==
    /\ narrow.depth < MaxDepth
    /\ LET T == narrow.T
           c == narrow.cell
           cy == CentreT(T, c.bottom, c.top)
           cx == CentreT(T, c.left, c.right)
           low == narrow.point[2] <= cy
           east == narrow.point[1] >= cx
       IN  narrow' =
             [narrow EXCEPT
                !.depth = @ + 1, !.from = c, !.cx = cx, !.cy = cy,
                !.cell = [left |-> IF east THEN cx ELSE c.left,
                          right |-> IF east THEN c.right ELSE cx,
                          bottom |-> IF low THEN c.bottom ELSE cy,
                          top |-> IF low THEN cy ELSE c.top]]
    /\ UNCHANGED <<bound, tree, live, gone, removed, last, readers>>

\* findVisitor.Visit on a node whose entity has point c, with a nil filter.
NarrowVisit(c) ==
    /\ Contains(narrow.universe, c)
    /\ LET T == narrow.T
           d == DistanceSquaredT(T, c, narrow.point)
       IN  /\ d < narrow.minDistSquared
           /\ \E s \in SqrtOutcomes(T, d) :
                  narrow' =
                    [narrow EXCEPT
                       !.minDistSquared = d,
                       !.closest = c,
                       !.closestBound =
                           [Min |-> <<WrapT(T, narrow.point[1] - s),
                                      WrapT(T, narrow.point[2] - s)>>,
                            Max |-> <<WrapT(T, narrow.point[1] + s),
                                      WrapT(T, narrow.point[2] + s)>>]]
    /\ UNCHANGED <<bound, tree, live, gone, removed, last, readers>>

NextNarrow ==
    \/ NarrowDescend
    \/ \E c \in NarrowPoints : NarrowVisit(c)

SpecNarrow == InitNarrow /\ [][NextNarrow]_vars

(***************************************************************************)
(* Vocabulary of the properties.                                           *)
(***************************************************************************)
\* The elements of a returned slice.
Elems(list) == {list[i] : i \in 1..Len(list)}

\* No element occurs twice in the slice.
NoRepeat(list) == \A i, j \in 1..Len(list) : list[i] = list[j] => i = j

\* Squared distance from entity e to point p, by the definition of the
\* Euclidean distance.
Dist2(e, p) ==
    (Pt(e)[1] - p[1]) * (Pt(e)[1] - p[1]) + (Pt(e)[2] - p[2]) * (Pt(e)[2] - p[2])

\* Point p lies in rectangle r, its boundary included.
Within(r, p) ==
    /\ r.Min[1] <= p[1] /\ p[1] <= r.Max[1]
    /\ r.Min[2] <= p[2] /\ p[2] <= r.Max[2]

\* The held entities a filter lets pass.
Passing(t, f) == {e \in Held(t) : f.nil \/ e \in f.acc}

\* The entities the last call returned.
Returned == (IF last.ent = NoValue THEN {} ELSE {last.ent}) \cup Elems(last.list)

NearestCalls == {"KNearest", "KNearestMatching"}

(***************************************************************************)
(* C1.  Count preservation: InBound over the universe rectangle returns    *)
(* exactly the entities added and not removed since, each once.            *)
(***************************************************************************)
C1_CountPreservation ==
    (last.op = "InBound" /\ last.r = bound)
        => /\ last.status = "ok"
           /\ NoRepeat(last.list)
           /\ Elems(last.list) = live

(***************************************************************************)
(* C2.  Nearest neighbour: Find and Matching return a held entity that     *)
(* passes the filter and is at least as close to the query point as every  *)
(* held entity that passes it; they return none exactly when no held       *)
(* entity passes.                                                          *)
(***************************************************************************)
C2_Nearest ==
    last.op \in {"Find", "Matching"}
        => LET pass == Passing(tree, last.f)
           IN  /\ last.status = "ok"
               /\ (last.ent = NoValue) <=> (pass = {})
               /\ last.ent # NoValue
                    => /\ last.ent \in pass
                       /\ \A e \in pass : Dist2(last.ent, last.p) <= Dist2(e, last.p)

\* Matching returned an entity below the root although the filter rejected
\* a held entity closer to the query point.
C2_Witness ==
    /\ last.op = "Matching"
    /\ last.ent # NoValue
    /\ tree[Root] # last.ent
    /\ \E e \in Held(tree) \ Passing(tree, last.f) :
           Dist2(e, last.p) < Dist2(last.ent, last.p)

(***************************************************************************)
(* C3.  Round trip: after Adds only, of entities with pairwise distinct    *)
(* points, Find at the point of an added entity returns that entity.       *)
(***************************************************************************)
DistinctPoints(S) == \A a, b \in S : Pt(a) = Pt(b) => a = b

C3_RoundTrip ==
    (/\ last.op = "Find"
     /\ ~removed
     /\ DistinctPoints(live)
     /\ \E e \in live : Pt(e) = last.p)
        => /\ last.status = "ok"
           /\ last.ent \in live
           /\ Pt(last.ent) = last.p

\* Find returned the entity at the query point, which is held below the root
\* of a tree of three entities.
C3_Witness ==
    /\ last.op = "Find"
    /\ ~removed
    /\ DistinctPoints(live)
    /\ Cardinality(live) = 3
    /\ last.ent \in live
    /\ Pt(last.ent) = last.p
    /\ tree[Root] # last.ent

(***************************************************************************)
(* C4.  K nearest, k >= 1: the result holds min(k, M) entities, M being    *)
(* the number of held entities that pass the filter and lie strictly       *)
(* within maxDistance (when given); no such entity left out is strictly    *)
(* closer than one in the result.                                          *)
(***************************************************************************)
\* The held entities that pass f and are strictly within the radius.
InReach(t, p, f, md) ==
    {e \in Passing(t, f) : Len(md) > 0 => Dist2(e, p) < md[1] * md[1]}

C4_KNearest ==
    (last.op \in NearestCalls /\ last.k >= 1)
        => LET cand == InReach(tree, last.p, last.f, last.md)
               M == Cardinality(cand)
           IN  /\ last.status = "ok"
               /\ Len(last.list) = (IF last.k < M THEN last.k ELSE M)
               /\ NoRepeat(last.list)
               /\ Elems(last.list) \subseteq cand
               /\ \A x \in cand \ Elems(last.list), y \in Elems(last.list) :
                      ~(Dist2(x, last.p) < Dist2(y, last.p))

\* KNearestMatching with a radius returned k entities and left out a held
\* entity within the radius, one outside of it and one the filter rejects.
C4_Witness ==
    /\ last.op = "KNearestMatching"
    /\ last.k >= 1
    /\ Len(last.md) > 0
    /\ Len(last.list) = last.k
    /\ InReach(tree, last.p, last.f, last.md) \ Elems(last.list) # {}
    /\ Held(tree) \ Passing(tree, last.f) # {}

(***************************************************************************)
(* C5.  K nearest: the returned list has at most k entries, in             *)
(* non-decreasing order of distance to the query point.                    *)
(***************************************************************************)
C5_KNearestOrdered ==
    (last.op \in NearestCalls /\ last.status = "ok")
        => /\ Len(last.list) <= last.k
           /\ \A i, j \in 1..Len(last.list) :
                  i < j => Dist2(last.list[i], last.p) <= Dist2(last.list[j], last.p)

\* KNearest returned two entities at different distances out of three held.
C5_Witness ==
    /\ last.op = "KNearest"
    /\ Len(last.list) = 2
    /\ Dist2(last.list[1], last.p) < Dist2(last.list[2], last.p)
    /\ Cardinality(Held(tree)) = 3

(***************************************************************************)
(* C6.  KNearest(p, 0) returns normally, with an empty result.             *)
(***************************************************************************)
C6_KZeroEmpty ==
    (last.op \in NearestCalls /\ last.k = 0)
        => /\ last.status = "ok"
           /\ last.list = << >>

(***************************************************************************)
(* C7.  Range query: InBound and InBoundMatching return, each once,        *)
(* exactly the held entities whose point lies in the query rectangle,      *)
(* boundary included, and that pass the filter.                            *)
(***************************************************************************)
C7_Range ==
    last.op \in {"InBound", "InBoundMatching"}
        => /\ last.status = "ok"
           /\ NoRepeat(last.list)
           /\ Elems(last.list)
                = {e \in Passing(tree, last.f) : Within(last.r, Pt(e))}

\* InBoundMatching returned an entity on the boundary of the rectangle, and
\* left out a held entity outside of it and one the filter rejects.
C7_Witness ==
    /\ last.op = "InBoundMatching"
    /\ \E e \in Elems(last.list) :
           Pt(e)[1] \in {last.r.Min[1], last.r.Max[1]}
    /\ \E e \in Held(tree) : ~Within(last.r, Pt(e))
    /\ \E e \in Held(tree) \ Passing(tree, last.f) : Within(last.r, Pt(e))

(***************************************************************************)
(* C8.  Add inserts the entity exactly when the reference is not nil and   *)
(* its point is within the universe rectangle, boundary included; a point  *)
(* outside of it yields the out-of-bounds error, a nil reference yields    *)
(* success, and in both cases the tree is unchanged.                       *)
(***************************************************************************)
C8_AddOutcome ==
    [][last'.op = "Add"
         => LET p == last'.e
            IN  /\ last'.status = "ok"
                /\ IF p # NoValue /\ Within(bound, Pt(p))
                   THEN /\ last'.err = "nil"
                        /\ Held(tree') = Held(tree) \cup {p}
                        /\ Cardinality(DOMAIN tree') = Cardinality(DOMAIN tree) + 1
                   ELSE /\ tree' = tree
                        /\ last'.err = (IF p = NoValue THEN "nil"
                                        ELSE "ErrPointOutsideOfBounds")]_vars

\* Add has put an entity whose point is on the edge of the universe into a
\* tree that held others.
C8_Witness ==
    /\ last.op = "Add"
    /\ last.e # NoValue
    /\ Pt(last.e)[1] = bound.Max[1]
    /\ last.e \in Held(tree)
    /\ tree[Root] # last.e

(***************************************************************************)
(* C9.  Remove with a target and matcher that accept no held entity        *)
(* returns false and leaves the results of Find and InBound unchanged, in  *)
(* every index state, the never-filled index included.                     *)
(***************************************************************************)
\* The matcher Remove(p, eq) applies.
Matcher(p, eq) == IF eq.nil THEN FilterOf({e \in Ents : Pt(e) = Pt(p)}) ELSE eq

C9_RemoveAbsent ==
    [][(/\ last'.op = "Remove"
        /\ Passing(tree, Matcher(last'.e, last'.f)) = {})
         => /\ last'.status = "ok"
            /\ last'.ok = FALSE
            /\ \A p \in QueryPoints :
                   MatchingResult(tree', bound', p, NilFilter)
                     = MatchingResult(tree, bound, p, NilFilter)
            /\ \A r \in QueryRects :
                   InBoundResult(tree', bound', r, NilFilter)
                     = InBoundResult(tree, bound, r, NilFilter)]_vars

(***************************************************************************)
(* C10.  Once Remove has removed x, no query returns x until x is added    *)
(* again.                                                                  *)
(***************************************************************************)
C10_RemovedStaysGone ==
    (last.op \in Queries /\ last.status = "ok") => Returned \cap gone = {}

\* A query returns entities from a three-node index from which an entity was
\* removed and not added again.
C10_Witness ==
    /\ last.op \in Queries
    /\ Returned # {}
    /\ gone # {}
    /\ gone \cap live = {}
    /\ Cardinality(DOMAIN tree) = 3

(***************************************************************************)
(* C11.  Concurrent readers: whatever the interleaving of the steps of the *)
(* queries that run at the same time on an index nobody changes, each      *)
(* query returns what the same call returns when it runs alone.            *)
(***************************************************************************)
\* What call c returns when it runs alone on the index.
AloneOutcome(t, b, c) ==
    CASE c.op \in {"Find", "Matching"} ->
             LET res == MatchingResult(t, b, c.p, c.f)
             IN  [c EXCEPT !.ent = res.ent, !.list = << >>,
                           !.status = IF res.panic THEN "panic" ELSE "ok"]
      [] c.op \in NearestCalls ->
             LET res == KNearestResult(t, b, c.p, c.k, c.f, c.md)
             IN  [c EXCEPT !.ent = NoValue, !.list = res.list,
                           !.status = IF res.panic THEN "panic" ELSE "ok"]
      [] OTHER ->
             LET res == InBoundResult(t, b, c.r, c.f)
             IN  [c EXCEPT !.ent = NoValue, !.list = res.list,
                           !.status = IF res.panic THEN "panic" ELSE "ok"]

C11_ConcurrentReaders ==
    \A r \in Readers :
        readers[r].pc = "done"
            => readers[r].call = AloneOutcome(tree, bound, readers[r].call)

\* A nearest search that shrank its relevant bound has returned an entity
\* after steps made while the walk of another nearest search, which goes on,
\* was under way.
C11_Witness ==
    \E r, o \in Readers :
        /\ readers[r].pc = "done"
        /\ readers[r].mixed
        /\ readers[r].call.op \in {"Find", "Matching"}
        /\ readers[r].call.ent # NoValue
        /\ readers[r].v.closestBound # bound
        /\ MidWalk(o)
        /\ readers[o].mixed
        /\ readers[o].v.kind # "inBound"

(***************************************************************************)
(* C12.  Queries are read-only: no step of a query changes a node's entity *)
(* or child links or the rectangle Bound() returns, and a Find or InBound  *)
(* call repeated with no Add or Remove in between returns the same result. *)
(***************************************************************************)
\* The call without what it returned.
ArgsOf(c) == [c EXCEPT !.ent = NoValue, !.list = << >>, !.status = "ok"]

\* Two finished calls of Find or InBound with equal arguments returned the
\* same.
RepeatAgrees ==
    \A r, o \in Readers :
        (/\ readers[r].pc = "done" /\ readers[o].pc = "done"
         /\ readers[r].call.op \in {"Find", "InBound"}
         /\ ArgsOf(readers[r].call) = ArgsOf(readers[o].call))
            => readers[r].call = readers[o].call

C12_ReadOnly ==
    [][readers' # readers
         => /\ tree' = tree
            /\ bound' = bound
            /\ RepeatAgrees']_vars

\* Two calls of Find with the same point have returned the same entity from
\* a tree of three nodes, having shrunk their relevant bounds.
C12_Witness ==
    /\ \A r \in Readers :
           /\ readers[r].pc = "done"
           /\ readers[r].call.op = "Find"
           /\ readers[r].call.ent # NoValue
           /\ readers[r].v.closestBound # bound
    /\ readers[1].call = readers[2].call
    /\ Cardinality(DOMAIN tree) = 3

(***************************************************************************)
(* C13.  One value per occupied subtree: a node that holds no entity has   *)
(* no node below it that holds one.                                        *)
(***************************************************************************)
C13_OneValuePerSubtree ==
    \A n \in DOMAIN tree :
        tree[n] = NoValue
            => \A m \in DOMAIN tree : IsUnder(n, m) => tree[m] = NoValue

(***************************************************************************)
(* C14.  Cell containment: the point of every entity a node holds lies in  *)
(* the rectangle the path of quadrants from the root gives the node, the   *)
(* universe rectangle for the root.                                        *)
(***************************************************************************)
\* The parent of a node and the quadrant the node is in.
Parent(n) == (n - 1) \div 4
Quadrant(n) == (n - 1) % 4

\* The rectangle of a node: quadrants 0 and 1 are the upper half, 1 and 3
\* the right half of the parent's rectangle, split at its centre.
RECURSIVE CellOf(_)
CellOf(n) ==
    IF n = Root THEN bound
    ELSE LET c == CellOf(Parent(n))
             mx == (c.Min[1] + c.Max[1]) \div 2
             my == (c.Min[2] + c.Max[2]) \div 2
             q == Quadrant(n)
         IN  [Min |-> <<IF q \in {1, 3} THEN mx ELSE c.Min[1],
                        IF q \in {0, 1} THEN my ELSE c.Min[2]>>,
              Max |-> <<IF q \in {1, 3} THEN c.Max[1] ELSE mx,
                        IF q \in {0, 1} THEN c.Max[2] ELSE my>>]

C14_CellContainment ==
    \A n \in DOMAIN tree :
        tree[n] # NoValue => Within(CellOf(n), Pt(tree[n]))

\* Remove has taken an entity out of the root and pulled up the entity of a
\* leaf: the root holds an entity, and the leaf left without one is in a
\* quadrant that does not contain the removed entity.
C14_Witness ==
    /\ last.op = "Remove"
    /\ last.ok
    /\ tree[Root] # NoValue
    /\ Cardinality(Held(tree)) = 2
    /\ \E m \in DOMAIN tree \ {Root} :
           /\ tree[m] = NoValue
           /\ Within(CellOf(m), Pt(tree[Root]))
           /\ ~Within(CellOf(m), Pt(last.ent))

(***************************************************************************)
(* C15.  When the index holds no entity, nothing having been added or all  *)
(* of it removed, a successful Add makes the entity the root's value.      *)
(***************************************************************************)
C15_AddToEmpty ==
    [][(/\ last'.op = "Add"
        /\ last'.e # NoValue
        /\ last'.err = "nil"
        /\ Held(tree) = {})
         => (Root \in DOMAIN tree' /\ tree'[Root] = last'.e)]_vars

(***************************************************************************)
(* C16.  Remove target selection: on a tree holding an entity, Remove      *)
(* returns true exactly when the matcher (by default: same point as the    *)
(* target) accepts a held entity, and the entity it takes out is an        *)
(* accepted one at the least squared distance from the target's point.     *)
(***************************************************************************)
C16_RemoveTarget ==
    [][(last'.op = "Remove" /\ Held(tree) # {})
         => LET acc == Passing(tree, Matcher(last'.e, last'.f))
                x == last'.ent
            IN  /\ last'.status = "ok"
                /\ last'.ok <=> (acc # {})
                /\ last'.ok
                     => /\ x \in acc
                        /\ x \notin Held(tree')
                        /\ \A e \in acc :
                               Dist2(x, Pt(last'.e)) <= Dist2(e, Pt(last'.e))]_vars

\* Remove has taken out the nearer of two held entities its matcher accepts.
C16_Witness ==
    /\ last.op = "Remove"
    /\ last.ok
    /\ ~last.f.nil
    /\ \E e \in Held(tree) \cap last.f.acc :
           Dist2(e, Pt(last.e)) > Dist2(last.ent, Pt(last.e))

(***************************************************************************)
(* C17.  Compaction: the node Remove takes the entity out of gets the      *)
(* entity of its lowest-numbered child that holds one, and that child is   *)
(* treated the same way in turn; a node with no child holding an entity is *)
(* left without entity; the child slots passed over because their node     *)
(* holds no entity are cleared.                                            *)
(***************************************************************************)
\* The quadrants of n whose child holds an entity.
Occupied(t, n) == {i \in 0..3 : HasChild(t, n, i) /\ t[Child(n, i)] # NoValue}

Lowest(S) == CHOOSE i \in S : \A j \in S : i <= j

\* Tree t2 is tree t after the entity of node n was taken out.
RECURSIVE PulledUp(_, _, _)
PulledUp(t, t2, n) ==
    /\ n \in DOMAIN t2
    /\ IF Occupied(t, n) = {}
       THEN /\ t2[n] = NoValue
            /\ \A j \in 0..3 : ~HasChild(t2, n, j)
       ELSE LET i == Lowest(Occupied(t, n))
            IN  /\ t2[n] = t[Child(n, i)]
                /\ \A j \in 0..(i - 1) : ~HasChild(t2, n, j)
                /\ \A j \in (i + 1)..3 : HasChild(t2, n, j) <=> HasChild(t, n, j)
                /\ PulledUp(t, t2, Child(n, i))

C17_PullUp ==
    [][(last'.op = "Remove" /\ last'.ok)
         => \E n \in DOMAIN tree :
                tree[n] = last'.ent /\ PulledUp(tree, tree', n)]_vars

\* Remove has taken the entity out of the root, which had two children
\* holding entities: the root now holds the entity of the lower-numbered one,
\* which is left without.
C17_Witness ==
    /\ last.op = "Remove"
    /\ last.ok
    /\ tree[Root] # NoValue
    /\ \E i, j \in 0..3 :
           /\ i < j
           /\ HasChild(tree, Root, i) /\ tree[Child(Root, i)] = NoValue
           /\ HasChild(tree, Root, j) /\ tree[Child(Root, j)] # NoValue
           /\ Within(CellOf(Child(Root, i)), Pt(tree[Root]))
           /\ ~Within(CellOf(Child(Root, i)), Pt(last.ent))

(***************************************************************************)
(* C18.  Quadrant rule: Add puts an entity below a node in quadrant 2 or 3 *)
(* exactly when its y is at most the centre's, and in quadrant 1 or 3      *)
(* exactly when its x is at least the centre's; childIndex gives the same  *)
(* quadrant as the insertion for the same cell and point.                  *)
(***************************************************************************)
C18_QuadrantRule ==
    [][(last'.op = "Add" /\ Root \in DOMAIN tree /\ tree' # tree)
         => \A m \in DOMAIN tree' \ DOMAIN tree :
                LET c == CellOf(Parent(m))
                    cx == Half(c.Min[1] + c.Max[1])
                    cy == Half(c.Min[2] + c.Max[2])
                    p == Pt(last'.e)
                IN  /\ tree'[m] = last'.e
                    /\ Quadrant(m) \in {2, 3} <=> p[2] <= cy
                    /\ Quadrant(m) \in {1, 3} <=> p[1] >= cx
                    /\ childIndex(cx, cy, p) = Quadrant(m)
                    /\ \A x \in QueryPoints \cup NearestPoints :
                           childIndex(cx, cy, x) = addIndex(cx, cy, x)]_vars

\* Add has put the entity that lies on both centre lines of the universe
\* into quadrant 3 of the root.
C18_Witness ==
    /\ last.op = "Add"
    /\ last.e # NoValue
    /\ Pt(last.e) = <<Half(bound.Min[1] + bound.Max[1]),
                      Half(bound.Min[2] + bound.Max[2])>>
    /\ HasChild(tree, Root, 3)
    /\ tree[Child(Root, 3)] = last.e

(***************************************************************************)
(* C19.  Visit order: the children of a node are visited in the cyclic     *)
(* order of the quadrants that starts, for Find and KNearest, from the     *)
(* quadrant containing the query point and, for InBound, from a fixed      *)
(* quadrant.                                                               *)
(***************************************************************************)
\* The quadrant of the rectangle c that contains point p, a point on a
\* centre line counting to the lower and to the right half.
QuadrantOf(c, p) ==
    LET mx == (c.Min[1] + c.Max[1]) \div 2
        my == (c.Min[2] + c.Max[2]) \div 2
    IN  IF p[2] <= my THEN (IF p[1] >= mx THEN 3 ELSE 2)
        ELSE (IF p[1] >= mx THEN 1 ELSE 0)

\* Goroutine r has read every two children of one node in the cyclic order
\* that starts from the quadrant start gives for the node's rectangle.
InCyclicOrder(r, start(_)) ==
    LET seen == readers[r].seen
    IN  \A a, b \in 1..Len(seen) :
            (/\ a < b
             /\ seen[a] # Root /\ seen[b] # Root
             /\ Parent(seen[a]) = Parent(seen[b]))
                => LET s == start(CellOf(Parent(seen[a])))
                   IN  (Quadrant(seen[a]) + 4 - s) % 4
                           < (Quadrant(seen[b]) + 4 - s) % 4

IsRange(r) == readers[r].call.op \in {"InBound", "InBoundMatching"}

C20_RadiusSeeds ==
    (last.op \in NearestCalls /\ Len(last.md) > 0 /\ Root \in DOMAIN tree)
        => LET v == newNearestVisitor(bound, last.p, last.k, last.f, last.md)
               d == last.md[1]
           IN  /\ v.maxDistSquared = d * d
               /\ visitorBound(v)
                    = [Min |-> <<last.p[1] - d, last.p[2] - d>>,
                       Max |-> <<last.p[1] + d, last.p[2] + d>>]

(***************************************************************************)
(* C21.  Adding an entity whose point equals the point of a held entity.   *)
(***************************************************************************)
\* The held entities at the point of entity p.
SamePoint(t, p) == {e \in Held(t) : Pt(e) = Pt(p)}

\* The number of calls of add that reach node m from the root.
RECURSIVE Depth(_)
Depth(m) == IF m = Root THEN 0 ELSE 1 + Depth(Parent(m))

\* The claim as it stands: Add never returns, that is, no call of Add with
\* such an entity comes back.
C21_AddNeverReturns ==
    [][~(/\ last'.op = "Add"
         /\ last'.e # NoValue
         /\ SamePoint(tree, last'.e) # {})]_vars

\* The amended claim: Add returns with success after at most as many calls of
\* add as the tree had nodes, having created one node, which holds the entity
\* and lies below the node of every held entity with the same point.
C21_AddSamePoint ==
    [][(/\ last'.op = "Add"
        /\ last'.e # NoValue
        /\ SamePoint(tree, last'.e) # {})
         => /\ last'.status = "ok"
            /\ last'.err = "nil"
            /\ \E m \in DOMAIN tree' \ DOMAIN tree :
                   /\ DOMAIN tree' = DOMAIN tree \cup {m}
                   /\ tree'[m] = last'.e
                   /\ Depth(m) <= Cardinality(DOMAIN tree)
                   /\ \A n \in DOMAIN tree :
                          tree[n] \in SamePoint(tree, last'.e)
                              => (n # m /\ IsUnder(n, m) /\ tree'[n] = tree[n])]_vars

\* Add has returned, having put an entity two levels below the root, which
\* holds an entity with the same point.
C21_Witness ==
    /\ last.op = "Add"
    /\ last.e # NoValue
    /\ Root \in DOMAIN tree
    /\ tree[Root] \in SamePoint(tree, last.e) \ {last.e}
    /\ \E m \in DOMAIN tree : tree[m] = last.e /\ Depth(m) = 2

(***************************************************************************)
(* C23.  A successful Add on an index that has a root creates exactly one  *)
(* node, in a child slot that was free, holding the added entity, and      *)
(* changes no other node's entity or child links.                          *)
(***************************************************************************)
C23_AddFrame ==
    [][(/\ last'.op = "Add"
        /\ last'.e # NoValue
        /\ last'.err = "nil"
        /\ Root \in DOMAIN tree)
         => \E m \in DOMAIN tree' \ DOMAIN tree :
                /\ DOMAIN tree' = DOMAIN tree \cup {m}
                /\ m # Root
                /\ Parent(m) \in DOMAIN tree
                /\ tree'[m] = last'.e
                /\ \A n \in DOMAIN tree : tree'[n] = tree[n]]_vars

\* Add has put an entity below a node that is not the root, in a tree that
\* held two entities.
C23_Witness ==
    /\ last.op = "Add"
    /\ last.e # NoValue
    /\ Cardinality(Held(tree)) = 3
    /\ \E m \in DOMAIN tree : tree[m] = last.e /\ Depth(m) = 2

(***************************************************************************)
(* C22.  Overflow-safe midpoint: with a fixed-width integer coordinate     *)
(* type, every centre computed from cell edges lo <= hi lies between them. *)
(***************************************************************************)
C22_MidpointInCell ==
    (narrow # NoNarrow /\ narrow.depth > 0)
        => LET c == narrow.from
           IN  /\ c.left <= c.right
                    => (c.left <= narrow.cx /\ narrow.cx <= c.right)
               /\ c.bottom <= c.top
                    => (c.bottom <= narrow.cy /\ narrow.cy <= c.top)

(***************************************************************************)
(* C24.  Whatever the coordinate type, the relevant bound a nearest search *)
(* writes when it records a candidate has Min <= query point <= Max in     *)
(* both components and contains the candidate.                             *)
(***************************************************************************)
C24_BoundAroundPoint ==
    (narrow # NoNarrow /\ narrow.closest # << >>)
        => /\ Within(narrow.closestBound, narrow.point)
           /\ Within(narrow.closestBound, narrow.closest)

====
